---- MODULE Spec2Model ----
(***************************************************************************)
(* Verification model of the llm-svc execution-resource layer.             *)
(*                                                                         *)
(*   Part 1  ModelPool / ModelContext  (app/services/model_pool.py,        *)
(*           app/services/model_context.py) driven by concurrent requests  *)
(*           that call acquire and release.                                *)
(*   Part 2  LlamaService, the generation coordinator                      *)
(*           (app/services/models_service.py) as called by                 *)
(*           app/api/endpoints/chat.py.                                    *)
(*                                                                         *)
(*           Non-stream requests run on the event loop, the body of a      *)
(*           stream response is iterated by a worker thread.               *)
(*                                                                         *)
(* Modelling notes.                                                        *)
(*  - ModelPool.initialize constructs its contexts with ModelContext()     *)
(*    (model_pool.py:36) while ModelContext.__init__ declares a context_id *)
(*    parameter (model_context.py:15): with that class the construction    *)
(*    raises TypeError and initialize fails before any context exists.     *)
(*    The model has both outcomes: the construction raises, or it returns  *)
(*    (a ModelContext that accepts the call).  A context's identity is the *)
(*    number the model gives it.                                           *)
(*  - ModelContext.is_ready is read by ModelPool.release only.  Whether the *)
(*    released context is ready (ModelContext.cleanup may have been called *)
(*    on it) is an input of the release.                                   *)
(*  - The four pool operations run under one asyncio.Lock; acquire and     *)
(*    release never await inside it, initialize and cleanup await only     *)
(*    their own contexts.  Each operation is one atomic action.            *)
(***************************************************************************)
EXTENDS Integers, Sequences, FiniteSets, TLC

\* ------------------------------------------------------------------ bounds
\* pool_size passed to ModelPool.__init__
PoolSize == 2
\* how many times ModelPool.initialize is called in one behaviour
MaxInits == 2
\* number of concurrent requests driving the pool
NumRequests == 2
\* number of distinct session ids the callers of LlamaService pass
NumSessions == 2

Requests == 1..NumRequests
\* a request that has no context reference
NoContext == 0
\* a reference to a context object the pool no longer tracks
Gone == -1
ContextIds == 1..(MaxInits * PoolSize)
\* the processing lock is free, the event loop is idle
NoRequest == 0
SessionIds == 1..NumSessions
\* no session id: the request has not called yet, no generation ran yet
NoSession == 0

\* ------------------------------------------------------------------ state
VARIABLES
    \* ModelPool fields
    contexts,               \* _contexts: list of context ids
    available,              \* _available: list, acquire pops its tail
    in_use,                 \* _in_use: set
    initialized,            \* _initialized
    initialization_failed,  \* _initialization_failed
    active_requests,        \* _active_requests
    max_active_requests,    \* _max_active_requests
    \* the requests driving the pool
    inits,                  \* number of initialize calls so far
    ref,                    \* the context reference each request keeps
    released,               \* 1 once the request called release with ref
    last,                   \* what the latest acquire or release call did
    \* LlamaService fields
    model,                  \* _model is not None
    is_initialized,         \* _is_initialized
    is_processing,          \* _is_processing
    processing_lock,        \* the request that locked _processing_lock
    \* the requests calling LlamaService
    spc,                    \* where each request is in the service's code
    kind,                   \* "non_stream" or "stream", once it has called
    session,                \* the session_id it passed
    loop,                   \* the request whose handler runs on the event loop
    trace,                  \* per request, what it did to the model so far
    prev_session,           \* session id of the latest backend generation
    resets_since,           \* _model.reset() calls since that generation began
    gap,                    \* <<previous session, session, resets between>>
                            \* of the latest generation
    \* one chat completion going through the response generators
    mode,                   \* "stream" or "non_stream": the request's stream flag
    text,                   \* the raw completion text of the backend
    deltas,                 \* the deltas the backend has still to yield
    buffer,                 \* generate's local buffer
    tool_call_detected,     \* generate's local tool_call_detected
    chunks,                 \* the chunks generate has yielded so far
    stream,                 \* "open", "done", or "escaped" once an exception
                            \* has left generate
    response,               \* <<>>, or the one result of _process_response
    \* the API key check in front of the endpoints
    security,               \* settings.security: enabled and api_key
    answers,                \* per request checked so far, the X-API-Key header
                            \* it sent and what the check answered
    \* the locks of the pool and of its contexts
    pool_lock,              \* ModelPool._lock: "free", or the call that holds
                            \* it across an await
    lpc                     \* where each request is between its calls of
                            \* acquire, ModelContext.generate and release

poolVars == <<contexts, available, in_use, initialized, initialization_failed,
              active_requests, max_active_requests>>
reqVars == <<ref, released, last>>
svcVars == <<model, is_initialized, is_processing, processing_lock, spc, kind,
             session, loop, trace, prev_session, resets_since, gap>>
textVars == <<mode, text, deltas, buffer, tool_call_detected, chunks, stream,
              response>>
authVars == <<security, answers>>
lockVars == <<pool_lock, lpc>>
vars == <<poolVars, inits, reqVars, svcVars, textVars, authVars, lockVars>>

\* ----------------------------------------------------------------- helpers
Range(s) == {s[i] : i \in 1..Len(s)}

Max(a, b) == IF a >= b THEN a ELSE b

RECURSIVE SelectIn(_, _)
\* the subsequence of s whose elements are in S, in s's order
SelectIn(s, S) ==
    IF s = <<>> THEN <<>>
    ELSE IF Head(s) \in S THEN <<Head(s)>> \o SelectIn(Tail(s), S)
         ELSE SelectIn(Tail(s), S)

\* how many times x occurs in the list s
Count(s, x) == Cardinality({i \in 1..Len(s) : s[i] = x})

\* the context objects the pool can still hand out or take back
Reachable == in_use \cup Range(available)

\* A reference to an object that is neither in _in_use nor in _available can
\* never be handed out again and release ignores it (model_pool.py:91): all
\* such references are written Gone.
Canon(f, live) ==
    [r \in DOMAIN f |-> IF f[r] \in live \/ f[r] = NoContext THEN f[r] ELSE Gone]

\* --------------------------------------------------------------- ModelPool
\* ModelPool.__init__
PoolInit ==
    /\ contexts = <<>>
    /\ available = <<>>
    /\ in_use = {}
    /\ initialized = FALSE
    /\ initialization_failed = FALSE
    /\ active_requests = 0
    /\ max_active_requests = PoolSize

\* the pool_size objects the n-th initialize call constructs
FreshContexts(n) == [i \in 1..PoolSize |-> (n - 1) * PoolSize + i]

\* ModelPool.initialize; fresh lists the contexts it constructed, ok is the
\* set of those whose ModelContext.initialize returned without raising.  An
\* exception of the construction is caught like the failure of all contexts.
initialize(fresh, ok) ==
    /\ contexts' = fresh
    /\ available' = SelectIn(fresh, ok)
    /\ IF ok = {}
       THEN /\ initialization_failed' = TRUE
            /\ UNCHANGED <<initialized, max_active_requests>>
       ELSE /\ initialized' = TRUE
            /\ max_active_requests' = Cardinality(ok)
            /\ UNCHANGED initialization_failed
    /\ UNCHANGED <<in_use, active_requests>>

\* Faulty variant of AcquireResult: the ceiling test is off by one, so the
\* last free slot is never handed out.
AcquireResult_OffByOne ==
    IF ~initialized \/ initialization_failed THEN "ServiceUnavailable"
    ELSE IF active_requests + 1 >= max_active_requests THEN "PoolExhausted"
    ELSE IF available = <<>> THEN "PoolExhausted"
    ELSE "ok"

\* what ModelPool.acquire does in the current state
AcquireResult ==
    IF ~initialized \/ initialization_failed THEN "ServiceUnavailable"
    ELSE IF active_requests >= max_active_requests THEN "PoolExhausted"
    ELSE IF available = <<>> THEN "PoolExhausted"
    ELSE "ok"

\* ModelPool.acquire when it returns a context: the tail of _available
acquire ==
    /\ available' = SubSeq(available, 1, Len(available) - 1)
    /\ in_use' = in_use \cup {available[Len(available)]}
    /\ active_requests' = active_requests + 1
    /\ UNCHANGED <<contexts, initialized, initialization_failed,
                   max_active_requests>>

\* Faulty variant of release: the context leaves _in_use but the counter is
\* not decremented.
release_KeepsCount(context, ready) ==
    /\ IF context \in in_use
       THEN /\ in_use' = in_use \ {context}
            /\ UNCHANGED active_requests
            /\ IF ready
               THEN available' = Append(available, context)
               ELSE UNCHANGED available
       ELSE UNCHANGED <<in_use, active_requests, available>>
    /\ UNCHANGED <<contexts, initialized, initialization_failed,
                   max_active_requests>>

\* Faulty variant of release: the membership test guards the bookkeeping of
\* _in_use and the counter only, a ready context is appended to _available on
\* every call.
release_AppendsAlways(context, ready) ==
    /\ IF context \in in_use
       THEN /\ in_use' = in_use \ {context}
            /\ active_requests' = Max(0, active_requests - 1)
       ELSE UNCHANGED <<in_use, active_requests>>
    /\ IF ready
       THEN available' = Append(available, context)
       ELSE UNCHANGED available
    /\ UNCHANGED <<contexts, initialized, initialization_failed,
                   max_active_requests>>

\* the branch ModelPool.release(context) takes
ReleaseResult(context, ready) ==
    IF context \notin in_use THEN "ignored"
    ELSE IF ready THEN "released"
    ELSE "dropped"

\* ModelPool.release(context); ready is context.is_ready
release(context, ready) ==
    /\ IF context \in in_use
       THEN /\ in_use' = in_use \ {context}
            /\ active_requests' = Max(0, active_requests - 1)
            /\ IF ready
               THEN available' = Append(available, context)
               ELSE UNCHANGED available
       ELSE UNCHANGED <<in_use, active_requests, available>>
    /\ UNCHANGED <<contexts, initialized, initialization_failed,
                   max_active_requests>>

\* Faulty variant of cleanup: the in-use set and the counter survive.
cleanup_KeepsInUse ==
    /\ contexts' = <<>>
    /\ available' = <<>>
    /\ initialized' = FALSE
    /\ initialization_failed' = FALSE
    /\ UNCHANGED <<in_use, active_requests, max_active_requests>>

\* ModelPool.cleanup: every context of _contexts is torn down, the pool's
\* state is reset; _max_active_requests is left as it is
cleanup ==
    /\ contexts' = <<>>
    /\ available' = <<>>
    /\ in_use' = {}
    /\ active_requests' = 0
    /\ initialized' = FALSE
    /\ initialization_failed' = FALSE
    /\ UNCHANGED max_active_requests

\* Faulty variant of is_ready: the available list is not looked at, so the
\* pool reports ready whenever it is loaded.
is_ready_IgnoresAvailable == initialized /\ ~initialization_failed

\* ModelPool.is_ready
is_ready == initialized /\ ~initialization_failed /\ Len(available) > 0

\* ---------------------------------------------------------------- requests
ReqInit ==
    /\ inits = 0
    /\ ref = [r \in Requests |-> NoContext]
    /\ released = [r \in Requests |-> 0]
    /\ last = "none"

\* the request acquired ref[r] and has not called release since
Holds(r) == ref[r] # NoContext /\ released[r] = 0

\* The sets of contexts that can be the ones whose initialization succeeds.
\* Fresh contexts are interchangeable, so it is enough to let the first k of
\* them succeed, for every k from 0 to pool_size.
InitOutcomes(fresh) == {Range(SubSeq(fresh, 1, k)) : k \in 0..Len(fresh)}

\* the application (re)initializes the pool; fresh is empty when the
\* construction of the first context raised
Initialize ==
    /\ inits < MaxInits
    /\ inits' = inits + 1
    /\ \E fresh \in {<<>>, FreshContexts(inits + 1)} :
          \E ok \in InitOutcomes(fresh) : initialize(fresh, ok)
    /\ ref' = Canon(ref, Reachable')
    /\ last' = "none"
    /\ UNCHANGED <<released, svcVars, textVars, authVars, lockVars>>

\* the application tears the pool down; when the pool has contexts, the
\* cleanup of some of them may raise, which gather(return_exceptions=True)
\* swallows
Cleanup ==
    /\ cleanup
    /\ ref' = Canon(ref, Reachable')
    /\ \E failures \in {f \in BOOLEAN : f => contexts # <<>>} :
          last' = IF failures THEN "cleanup_with_failures" ELSE "cleanup"
    /\ UNCHANGED <<inits, released, svcVars, textVars, authVars, lockVars>>

\* Faulty variant of Acquire: the counter is incremented before the tests,
\* so a refused call counts as an active request.
Acquire_CountsRefused(r) ==
    /\ ~Holds(r)
    /\ last' = AcquireResult
    /\ IF AcquireResult = "ok"
       THEN /\ acquire
            /\ ref' = Canon([ref EXCEPT ![r] = available[Len(available)]],
                            Reachable')
            /\ released' = [released EXCEPT ![r] = 0]
       ELSE /\ active_requests' = active_requests + 1
            /\ UNCHANGED <<contexts, available, in_use, initialized,
                           initialization_failed, max_active_requests, ref,
                           released>>
    /\ UNCHANGED <<inits, svcVars, textVars, authVars, lockVars>>

\* a request that holds no context calls acquire
Acquire(r) ==
    /\ ~Holds(r)
    /\ last' = AcquireResult
    /\ IF AcquireResult = "ok"
       THEN /\ acquire
            /\ ref' = Canon([ref EXCEPT ![r] = available[Len(available)]],
                            Reachable')
            /\ released' = [released EXCEPT ![r] = 0]
       ELSE UNCHANGED <<poolVars, ref, released>>
    /\ UNCHANGED <<inits, svcVars, textVars, authVars, lockVars>>

\* a request calls release with the context reference it keeps; the reference
\* outlives the call, so the request can release the same context again
Release(r) ==
    /\ ref[r] # NoContext
    /\ \E ready \in BOOLEAN :
          /\ release(ref[r], ready)
          /\ last' = ReleaseResult(ref[r], ready)
    /\ released' = [released EXCEPT ![r] = 1]
    /\ ref' = Canon(ref, Reachable')
    /\ UNCHANGED <<inits, svcVars, textVars, authVars, lockVars>>

\* ------------------------------------------------------------ LlamaService
\* LlamaService.__init__ and requests that have not called yet
ServiceInit ==
    /\ model = FALSE
    /\ is_initialized = FALSE
    /\ is_processing = FALSE
    /\ processing_lock = NoRequest
    /\ spc = [r \in Requests |-> "new"]
    /\ kind = [r \in Requests |-> "none"]
    /\ session = [r \in Requests |-> NoSession]
    /\ loop = NoRequest
    /\ trace = [r \in Requests |-> <<>>]
    /\ prev_session = NoSession
    /\ resets_since = 0
    /\ gap = <<>>

\* the request appends an event to its trace
Log(r, e) == trace' = [trace EXCEPT ![r] = Append(trace[r], e)]

\* how many times the event e is in the trace of r
Events(r, e) == Count(trace[r], e)

\* LlamaService._acquire_processing: a non-blocking attempt on the lock; TRUE
\* when the lock was taken
acquire_processing(r) ==
    IF processing_lock = NoRequest
    THEN /\ processing_lock' = r
         /\ is_processing' = TRUE
         /\ Log(r, "acquire")
    ELSE UNCHANGED <<processing_lock, is_processing, trace>>

\* LlamaService._release_processing
release_processing ==
    /\ is_processing' = FALSE
    /\ processing_lock' = NoRequest

\* Faulty variant of AfterResetCache: an exception of _model.reset() leaves
\* the finally block, the release is skipped.
AfterResetCache_Propagates(raises) == IF raises THEN "raised" ELSE "release"

\* where LlamaService.reset_cache leaves its caller: the exception of
\* _model.reset() is logged and swallowed, the finally block goes on
AfterResetCache(raises) == "release"

\* the request's call has ended: the handler leaves the event loop
Ended(pc) == pc \in {"done", "rejected", "raised"}

\* LlamaService.initialize as app/main.py calls it at start-up; loads tells
\* whether Llama(**model_params) returned
ServiceInitialize ==
    /\ loop = NoRequest
    /\ ~is_initialized
    /\ \E loads \in BOOLEAN :
          IF loads
          THEN model' = TRUE /\ is_initialized' = TRUE
          ELSE UNCHANGED <<model, is_initialized>>
    /\ UNCHANGED <<is_processing, processing_lock, spc, kind, session, loop,
                   trace, prev_session, resets_since, gap>>
    /\ UNCHANGED <<poolVars, inits, reqVars, textVars, authVars, lockVars>>

\* LlamaService.cleanup; the model object is dropped, a later initialize
\* loads another one
ServiceCleanup ==
    /\ loop = NoRequest
    /\ model
    /\ model' = FALSE
    /\ is_initialized' = FALSE
    /\ prev_session' = NoSession
    /\ resets_since' = 0
    /\ UNCHANGED <<is_processing, processing_lock, spc, kind, session, loop,
                   trace, gap>>
    /\ UNCHANGED <<poolVars, inits, reqVars, textVars, authVars, lockVars>>

\* chat_completion with stream=False calls generate_response_non_stream: the
\* lock is tried; on success the try block builds the coroutine of
\* NonStreamResponseGenerator.generate without running it and the finally
\* block is next
NonStreamCall(r, s) ==
    /\ spc[r] = "new"
    /\ loop = NoRequest
    /\ kind' = [kind EXCEPT ![r] = "non_stream"]
    /\ session' = [session EXCEPT ![r] = s]
    /\ acquire_processing(r)
    /\ IF processing_lock = NoRequest
       THEN spc' = [spc EXCEPT ![r] = "finally"] /\ loop' = r
       ELSE spc' = [spc EXCEPT ![r] = "rejected"] /\ UNCHANGED loop
    /\ UNCHANGED <<model, is_initialized, prev_session, resets_since, gap>>
    /\ UNCHANGED <<poolVars, inits, reqVars, textVars, authVars, lockVars>>

\* chat_completion with stream=True: generate_response_stream only creates
\* the generator object, StreamingResponse will iterate it in a worker thread
StreamCall(r, s) ==
    /\ spc[r] = "new"
    /\ loop = NoRequest
    /\ kind' = [kind EXCEPT ![r] = "stream"]
    /\ session' = [session EXCEPT ![r] = s]
    /\ spc' = [spc EXCEPT ![r] = "created"]
    /\ UNCHANGED <<model, is_initialized, is_processing, processing_lock, loop,
                   trace, prev_session, resets_since, gap>>
    /\ UNCHANGED <<poolVars, inits, reqVars, textVars, authVars, lockVars>>

\* the first next() on the generator of generate_response_stream: the lock
\* is tried; on success the for statement over the async generator of
\* StreamResponseGenerator.generate raises TypeError, the except block raises
\* AttributeError (_create_error_chunk is not defined) and the finally block
\* is next
StreamNext(r) ==
    /\ spc[r] = "created"
    /\ acquire_processing(r)
    /\ IF processing_lock = NoRequest
       THEN spc' = [spc EXCEPT ![r] = "finally"]
       ELSE spc' = [spc EXCEPT ![r] = "rejected"]
    /\ UNCHANGED <<model, is_initialized, kind, session, loop, prev_session,
                   resets_since, gap>>
    /\ UNCHANGED <<poolVars, inits, reqVars, textVars, authVars, lockVars>>

\* the finally block calls LlamaService.reset_cache
ResetCache(r) ==
    /\ spc[r] = "finally"
    /\ IF model
       THEN /\ Log(r, "reset")
            /\ resets_since' = resets_since + 1
            /\ \E raises \in BOOLEAN :
                  /\ spc' = [spc EXCEPT ![r] = AfterResetCache(raises)]
                  /\ loop' = IF Ended(spc'[r]) /\ loop = r THEN NoRequest
                             ELSE loop
       ELSE /\ spc' = [spc EXCEPT ![r] = "release"]
            /\ UNCHANGED <<trace, resets_since, loop>>
    /\ UNCHANGED <<model, is_initialized, is_processing, processing_lock, kind,
                   session, prev_session, gap>>
    /\ UNCHANGED <<poolVars, inits, reqVars, textVars, authVars, lockVars>>

\* the finally block calls _release_processing; a non-stream call then
\* returns the coroutine to chat_completion, a stream's generator ends with
\* the exception
ReleaseProcessing(r) ==
    /\ spc[r] = "release"
    /\ release_processing
    /\ Log(r, "release")
    /\ spc' = [spc EXCEPT ![r] = IF kind[r] = "stream" THEN "raised"
                                 ELSE "returned"]
    /\ UNCHANGED <<model, is_initialized, kind, session, loop, prev_session,
                   resets_since, gap>>
    /\ UNCHANGED <<poolVars, inits, reqVars, textVars, authVars, lockVars>>

\* chat_completion awaits the coroutine: NonStreamResponseGenerator.generate
\* runs and calls LlamaService._create_completion, which calls
\* _model.create_chat_completion on the event loop's thread; without a model
\* the call raises AttributeError, generate's except clause calls
\* _create_error_response, and the TypeError of that call leaves generate
GenerateBegin(r) ==
    /\ spc[r] = "returned"
    /\ IF model
       THEN /\ spc' = [spc EXCEPT ![r] = "generating"]
            /\ Log(r, "generate")
            /\ gap' = <<prev_session, session[r], resets_since>>
            /\ prev_session' = session[r]
            /\ resets_since' = 0
            /\ UNCHANGED loop
       ELSE /\ spc' = [spc EXCEPT ![r] = "done"]
            /\ loop' = NoRequest
            /\ UNCHANGED <<trace, gap, prev_session, resets_since>>
    /\ UNCHANGED <<model, is_initialized, is_processing, processing_lock, kind,
                   session>>
    /\ UNCHANGED <<poolVars, inits, reqVars, textVars, authVars, lockVars>>

\* _model.create_chat_completion ends.  When it raised, generate catches the
\* exception; when it returned, awaiting the dict it returned raises
\* TypeError, which generate catches too: both ways the except clause calls
\* _create_error_response, whose TypeError leaves generate and reaches
\* chat_completion
GenerateEnd(r) ==
    /\ spc[r] = "generating"
    /\ \E raises \in BOOLEAN :
          Log(r, IF raises THEN "backend_raised" ELSE "backend_returned")
    /\ spc' = [spc EXCEPT ![r] = "done"]
    /\ loop' = NoRequest
    /\ UNCHANGED <<model, is_initialized, is_processing, processing_lock, kind,
                   session, prev_session, resets_since, gap>>
    /\ UNCHANGED <<poolVars, inits, reqVars, textVars, authVars, lockVars>>

NextService ==
    \/ ServiceInitialize
    \/ ServiceCleanup
    \/ \E r \in Requests, s \in SessionIds : NonStreamCall(r, s)
    \/ \E r \in Requests, s \in SessionIds : StreamCall(r, s)
    \/ \E r \in Requests : StreamNext(r)
    \/ \E r \in Requests : ResetCache(r)
    \/ \E r \in Requests : ReleaseProcessing(r)
    \/ \E r \in Requests : GenerateBegin(r)
    \/ \E r \in Requests : GenerateEnd(r)

\* ------------------------------------------------------- tool-call text
\* Texts are sequences of symbols.  A symbol is one character, except for
\* "tool_call", "\"name\":" and "\"arguments\":", which stand for those
\* character runs; every symbol that can be a JSON value on its own is one
\* character.
OpenMarker == <<"<", "tool_call", ">">>
CloseMarker == <<"<", "/", "tool_call", ">">>
NameKey == "\"name\":"
ArgumentsKey == "\"arguments\":"
Quote == "\""

\* str.strip() and the regex class \s: the whitespace symbol is " "
RECURSIVE LStrip(_)
LStrip(s) == IF s # <<>> /\ Head(s) = " " THEN LStrip(Tail(s)) ELSE s

RECURSIVE RStrip(_)
RStrip(s) ==
    IF s # <<>> /\ s[Len(s)] = " " THEN RStrip(SubSeq(s, 1, Len(s) - 1))
    ELSE s

strip(s) == RStrip(LStrip(s))

\* pat occurs in s at position i
OccursAt(s, pat, i) ==
    /\ i >= 1 /\ i + Len(pat) - 1 <= Len(s)
    /\ SubSeq(s, i, i + Len(pat) - 1) = pat

\* the Python test  pat in s
Contains(s, pat) == \E i \in 1..Len(s) : OccursAt(s, pat, i)

\* str.find from position i on: the first position of pat, 0 when there is
\* none
Find(s, pat, i) ==
    IF \E j \in i..Len(s) : OccursAt(s, pat, j)
    THEN CHOOSE j \in i..Len(s) :
            OccursAt(s, pat, j) /\ \A k \in i..(j - 1) : ~OccursAt(s, pat, k)
    ELSE 0

\* ----- JSON values, as json.loads returns them
JNumber(run) ==
    [kind |-> "number", digits |-> run, text |-> <<>>, keys |-> <<>>,
     name |-> <<>>, arguments |-> <<>>]
JString(chars) ==
    [kind |-> "string", digits |-> <<>>, text |-> chars, keys |-> <<>>,
     name |-> <<>>, arguments |-> <<>>]
\* a dict: keys in insertion order, name and arguments hold the value of
\* their key when it is present
JObject(ks, n, a) ==
    [kind |-> "object", digits |-> <<>>, text |-> <<>>, keys |-> ks,
     name |-> n, arguments |-> a]
EmptyObject == JObject(<<>>, <<>>, <<>>)

\* dict[key] = value: a repeated key keeps its place and takes the new value
Put(obj, key, value) ==
    JObject(IF key \in Range(obj.keys) THEN obj.keys
            ELSE Append(obj.keys, key),
            IF key = NameKey THEN <<value>> ELSE obj.name,
            IF key = ArgumentsKey THEN <<value>> ELSE obj.arguments)

\* the parsers return [ok, val, rest]
ParseFail == [ok |-> FALSE, val |-> EmptyObject, rest |-> <<>>]
Parsed(v, r) == [ok |-> TRUE, val |-> v, rest |-> r]

\* length of the run of digits s starts with
RECURSIVE DigitRun(_)
DigitRun(s) ==
    IF s # <<>> /\ Head(s) = "1" THEN 1 + DigitRun(Tail(s)) ELSE 0

RECURSIVE ParseValue(_)
RECURSIVE ParseMembers(_, _)
\* the members of an object, s is where a member must start
ParseMembers(s, obj) ==
    LET t == LStrip(s) IN
    IF t = <<>> \/ Head(t) \notin {NameKey, ArgumentsKey} THEN ParseFail
    ELSE LET v == ParseValue(Tail(t))
             u == LStrip(v.rest)
         IN IF ~v.ok \/ u = <<>> THEN ParseFail
            ELSE IF Head(u) = "}"
                 THEN Parsed(Put(obj, Head(t), v.val), Tail(u))
            ELSE IF Head(u) = ","
                 THEN ParseMembers(Tail(u), Put(obj, Head(t), v.val))
            ELSE ParseFail

\* one JSON value at the start of s, after optional whitespace
ParseValue(s) ==
    LET t == LStrip(s) IN
    IF t = <<>> THEN ParseFail
    ELSE IF Head(t) = "1"
         THEN Parsed(JNumber(SubSeq(t, 1, DigitRun(t))),
                     SubSeq(t, DigitRun(t) + 1, Len(t)))
    ELSE IF Head(t) = Quote
         THEN LET e == Find(t, <<Quote>>, 2) IN
              IF e = 0 THEN ParseFail
              ELSE Parsed(JString(SubSeq(t, 2, e - 1)),
                          SubSeq(t, e + 1, Len(t)))
    ELSE IF Head(t) = "{"
         THEN IF LStrip(Tail(t)) # <<>> /\ Head(LStrip(Tail(t))) = "}"
              THEN Parsed(EmptyObject, Tail(LStrip(Tail(t))))
              ELSE ParseMembers(Tail(t), EmptyObject)
    ELSE ParseFail

\* json.loads: ok is FALSE when it raises JSONDecodeError
json_loads(s) ==
    LET r == ParseValue(s) IN
    IF r.ok /\ LStrip(r.rest) = <<>> THEN [ok |-> TRUE, val |-> r.val]
    ELSE [ok |-> FALSE, val |-> EmptyObject]

\* json.dumps with its default separators ", " and ": "
RECURSIVE json_dumps(_)
RECURSIVE DumpMembers(_, _)
DumpMembers(obj, ks) ==
    IF ks = <<>> THEN <<>>
    ELSE LET v == IF Head(ks) = NameKey THEN obj.name[1]
                  ELSE obj.arguments[1]
         IN <<Head(ks), " ">> \o json_dumps(v)
            \o (IF Tail(ks) = <<>> THEN <<>> ELSE <<",", " ">>)
            \o DumpMembers(obj, Tail(ks))

json_dumps(v) ==
    IF v.kind = "number" THEN v.digits
    ELSE IF v.kind = "string" THEN <<Quote>> \o v.text \o <<Quote>>
    ELSE <<"{">> \o DumpMembers(v, v.keys) \o <<"}">>

\* ----- the pattern  <tool_call>\s*(.*?)\s*</tool_call>  with re.DOTALL
\* The leftmost match from position i on: it starts at the first opening
\* marker and ends with the first closing marker after it; the group is what
\* lies between, without the whitespace at its two ends.  found is FALSE when
\* no closing marker follows an opening marker.
FirstMatch(s, i) ==
    LET o == Find(s, OpenMarker, i)
        c == IF o = 0 THEN 0 ELSE Find(s, CloseMarker, o + Len(OpenMarker))
    IN IF c = 0
       THEN [found |-> FALSE, start |-> 0, end |-> 0, group |-> <<>>]
       ELSE [found |-> TRUE, start |-> o, end |-> c + Len(CloseMarker) - 1,
             group |-> strip(SubSeq(s, o + Len(OpenMarker), c - 1))]

\* re.findall(pattern, s): the groups of the successive matches
RECURSIVE FindAll(_, _)
FindAll(s, i) ==
    LET m == FirstMatch(s, i) IN
    IF m.found THEN <<m.group>> \o FindAll(s, m.end + 1) ELSE <<>>

\* re.sub(pattern, '', s): s without its matches
RECURSIVE RemoveAll(_, _)
RemoveAll(s, i) ==
    LET m == FirstMatch(s, i) IN
    IF m.found THEN SubSeq(s, i, m.start - 1) \o RemoveAll(s, m.end + 1)
    ELSE SubSeq(s, i, Len(s))

\* ----- ToolCallProcessor.extract_tool_calls
\* What the loop body does with one match: "call" appends a ToolCall, "skip"
\* is the except branch (JSONDecodeError, KeyError), "raise" is an exception
\* the except clause does not catch: AttributeError of .get on a value that
\* is no dict, ValidationError of FunctionCall for a name that is no str.
ExtractOutcome(match) ==
    LET d == json_loads(match) IN
    IF ~d.ok THEN "skip"
    ELSE IF d.val.kind # "object" THEN "raise"
    ELSE IF d.val.name # <<>> /\ d.val.name[1].kind # "string" THEN "raise"
    ELSE "call"

\* int(time.time()) as the code reads it: the wall clock's second
MaxSecond == 1
Seconds == 0..MaxSecond

\* the ToolCall built from the i-th match (i counts from 0) at second now;
\* its id is f"call_{i}_{now}"
ExtractedCall(match, i, now) ==
    LET d == json_loads(match).val IN
    [id |-> <<"call", i, now>>,
     name |-> IF d.name = <<>> THEN JString(<<>>) ELSE d.name[1],
     arguments |-> json_dumps(IF d.arguments = <<>> THEN EmptyObject
                              ELSE d.arguments[1])]

RECURSIVE ExtractCalls(_, _, _)
ExtractCalls(matches, i, now) ==
    IF matches = <<>> THEN <<>>
    ELSE (IF ExtractOutcome(Head(matches)) = "call"
          THEN <<ExtractedCall(Head(matches), i, now)>> ELSE <<>>)
         \o ExtractCalls(Tail(matches), i + 1, now)

\* raised is TRUE when an exception leaves the function
extract_tool_calls(raw, now) ==
    LET matches == FindAll(raw, 1) IN
    IF \E k \in 1..Len(matches) : ExtractOutcome(matches[k]) = "raise"
    THEN [raised |-> TRUE, cleaned_text |-> <<>>, tool_calls |-> <<>>]
    ELSE [raised |-> FALSE,
          cleaned_text |-> strip(RemoveAll(raw, 1)),
          tool_calls |-> ExtractCalls(matches, 0, now)]

\* ----- NonStreamResponseGenerator._process_response
\* The finish_reason the backend reported: a string, "null" for an explicit
\* None, "absent" when the key is missing.
BackendFinishReasons == {"stop", "length", "null", "absent"}

\* choices_data.get('finish_reason', 'stop')
ReportedFinishReason(backend_finish) ==
    IF backend_finish = "absent" THEN "stop" ELSE backend_finish

\* What the backend call gives: "ok" is a response with a choice, "no_choices"
\* a response that is empty or has no choice, "raises" an exception.
BackendOutcomes == {"ok", "no_choices", "raises"}

\* message_data.get('tool_calls'): None, or the tool calls the backend put
\* into its completion message itself
BackendCall ==
    [id |-> <<"backend">>, name |-> JString(<<"g">>),
     arguments |-> json_dumps(EmptyObject)]
BackendToolCalls == {<<>>, <<BackendCall>>}

\* response.get('usage', {}): the counters of the backend, or none
ZeroUsage == [prompt_tokens |-> 0, completion_tokens |-> 0, total_tokens |-> 0]
BackendUsage == [prompt_tokens |-> 1, completion_tokens |-> 1, total_tokens |-> 2]

\* an exception leaves the function
Raised ==
    [raised |-> TRUE, error |-> FALSE, content |-> <<>>, tool_calls |-> <<>>,
     finish_reason |-> "none", usage |-> ZeroUsage]

\* _create_error_response builds its message with Message(role=..., content=...);
\* Message is the typing.Union of the five message classes, and calling a
\* Union raises TypeError: no error response is ever built.
create_error_response == Raised

\* content is the raw completion text, tools tells whether the request has
\* tool definitions, has_usage whether the backend supplied usage counters.
process_response(backend, has_usage, content, tools, backend_finish, backend_calls, now) ==
    LET x == extract_tool_calls(content, now)
        usage == IF has_usage THEN BackendUsage ELSE ZeroUsage
    IN
    IF backend = "no_choices" THEN create_error_response
    ELSE IF tools /\ content # <<>> /\ x.raised THEN Raised
    ELSE IF tools /\ content # <<>> /\ x.tool_calls # <<>>
    THEN [raised |-> FALSE, error |-> FALSE,
          content |-> strip(x.cleaned_text), tool_calls |-> x.tool_calls,
          finish_reason |-> "tool_calls", usage |-> usage]
    ELSE [raised |-> FALSE, error |-> FALSE, content |-> content,
          tool_calls |-> backend_calls,
          finish_reason |-> ReportedFinishReason(backend_finish),
          usage |-> usage]

\* NonStreamResponseGenerator.generate: the try block, and the except clause
\* that answers every exception with _create_error_response
non_stream_generate(backend, has_usage, content, tools, backend_finish, backend_calls, now) ==
    LET r == IF backend = "raises" THEN Raised
             ELSE process_response(backend, has_usage, content, tools,
                                   backend_finish, backend_calls, now)
    IN IF r.raised THEN create_error_response ELSE r

\* ----- StreamResponseGenerator
\* What the try block does with one match; every exception is caught.
ParseOutcome(match) ==
    LET d == json_loads(match) IN
    IF d.ok /\ d.val.kind = "object" /\ d.val.name # <<>>
       /\ d.val.arguments # <<>>
    THEN "call" ELSE "skip"

\* _parse_tool_calls_from_buffer
RECURSIVE ParseCalls(_, _)
ParseCalls(matches, now) ==
    IF matches = <<>> THEN <<>>
    ELSE (IF ParseOutcome(Head(matches)) = "call"
          THEN <<[id |-> <<"call", now>>,
                  name |-> json_loads(Head(matches)).val.name[1],
                  arguments |->
                      json_dumps(json_loads(Head(matches)).val.arguments[1])]>>
          ELSE <<>>)
         \o ParseCalls(Tail(matches), now)

\* the id of every call is f"call_{now}"
parse_tool_calls_from_buffer(buf, now) == ParseCalls(FindAll(buf, 1), now)

\* the chunks: _create_chunk, the three chunks of _stream_tool_calls and the
\* end-of-stream marker
TextChunk(content) ==
    [kind |-> "text", content |-> content, call |-> <<>>,
     arguments |-> <<>>, finish_reason |-> "none"]
InitiationChunk(tool_call) ==
    [kind |-> "tool_call", content |-> <<>>,
     call |-> <<[id |-> tool_call.id, name |-> tool_call.name]>>,
     arguments |-> <<>>, finish_reason |-> "none"]
ArgumentsChunk(slice, finish) ==
    [kind |-> "tool_call", content |-> <<>>, call |-> <<>>,
     arguments |-> slice, finish_reason |-> finish]
DoneChunk ==
    [kind |-> "done", content |-> <<>>, call |-> <<>>,
     arguments |-> <<>>, finish_reason |-> "none"]

\* Faulty variant of stream_tool_calls: the terminal chunk starts one symbol
\* after the middle.
stream_tool_calls_SkipsOne(tool_call) ==
    LET args == tool_call.arguments
        mid == Len(args) \div 2
    IN <<InitiationChunk(tool_call)>>
       \o (IF mid > 0 THEN <<ArgumentsChunk(SubSeq(args, 1, mid), "none")>>
           ELSE <<>>)
       \o <<ArgumentsChunk(SubSeq(args, mid + 2, Len(args)), "tool_calls")>>

\* _stream_tool_calls: the arguments string is cut at its middle
stream_tool_calls(tool_call) ==
    LET args == tool_call.arguments
        mid == Len(args) \div 2
    IN <<InitiationChunk(tool_call)>>
       \o (IF mid > 0 THEN <<ArgumentsChunk(SubSeq(args, 1, mid), "none")>>
           ELSE <<>>)
       \o <<ArgumentsChunk(SubSeq(args, mid + 1, Len(args)), "tool_calls")>>

\* the loop body that keeps buffering when the tag's body gave no call
FeedDelta_KeepsBuffer(st, content, now) ==
    IF content = <<>>
    THEN [buffer |-> st.buffer, detected |-> st.detected, out |-> <<>>]
    ELSE IF ~st.detected /\ ~Contains(content, OpenMarker)
    THEN [buffer |-> st.buffer, detected |-> st.detected,
          out |-> <<TextChunk(content)>>]
    ELSE LET b == st.buffer \o content
             calls == parse_tool_calls_from_buffer(b, now)
         IN IF Contains(b, CloseMarker) /\ calls # <<>>
            THEN [buffer |-> <<>>, detected |-> FALSE,
                  out |-> stream_tool_calls(calls[1])]
            ELSE [buffer |-> b, detected |-> TRUE, out |-> <<>>]

\* the loop body with plain text kept in the buffer until the stream ends
FeedDelta_BuffersText(st, content, now) ==
    IF content = <<>>
    THEN [buffer |-> st.buffer, detected |-> st.detected, out |-> <<>>]
    ELSE IF ~st.detected /\ ~Contains(content, OpenMarker)
    THEN [buffer |-> st.buffer \o content, detected |-> st.detected,
          out |-> <<>>]
    ELSE LET b == st.buffer \o content
             calls == parse_tool_calls_from_buffer(b, now)
         IN IF Contains(b, CloseMarker)
            THEN [buffer |-> <<>>, detected |-> FALSE,
                  out |-> IF calls # <<>> THEN stream_tool_calls(calls[1])
                          ELSE <<>>]
            ELSE [buffer |-> b, detected |-> TRUE, out |-> <<>>]

\* The body of the loop of generate for one delta: st is [buffer, detected],
\* the result is the new state and the chunks yielded.
FeedDelta(st, content, now) ==
    IF content = <<>>
    THEN [buffer |-> st.buffer, detected |-> st.detected, out |-> <<>>]
    ELSE IF ~st.detected /\ ~Contains(content, OpenMarker)
    THEN [buffer |-> st.buffer, detected |-> st.detected,
          out |-> <<TextChunk(content)>>]
    ELSE LET b == st.buffer \o content
             calls == parse_tool_calls_from_buffer(b, now)
         IN IF Contains(b, CloseMarker)
            THEN [buffer |-> <<>>, detected |-> FALSE,
                  out |-> IF calls # <<>> THEN stream_tool_calls(calls[1])
                          ELSE <<>>]
            ELSE [buffer |-> b, detected |-> TRUE, out |-> <<>>]

\* the statements after the loop: the flush and the end-of-stream marker
EndOfStream(st) ==
    (IF st.buffer # <<>> /\ ~st.detected THEN <<TextChunk(st.buffer)>>
     ELSE <<>>) \o <<DoneChunk>>

\* all the chunks generate yields for a stream of deltas that ends
RECURSIVE RunStream(_, _, _)
RunStream(st, ds, now) ==
    IF ds = <<>> THEN EndOfStream(st)
    ELSE LET n == FeedDelta(st, Head(ds), now) IN
         n.out \o RunStream([buffer |-> n.buffer, detected |-> n.detected],
                            Tail(ds), now)

\* ----- the completions the generators are given
MaxDigits == 2      \* digits of the longest number among the argument values
MaxPad == 1         \* symbols of the longest plain text around a tag

RECURSIVE Ones(_)
Ones(n) == IF n = 0 THEN <<>> ELSE <<"1">> \o Ones(n - 1)

RECURSIVE SeqsUpTo(_, _)
SeqsUpTo(S, n) ==
    IF n = 0 THEN {<<>>}
    ELSE SeqsUpTo(S, n - 1)
         \cup {Append(q, x) : q \in SeqsUpTo(S, n - 1), x \in S}

\* plain text: letters and blanks
Pads == SeqsUpTo({"x", " "}, MaxPad)

\* JSON texts of argument values: numbers, the empty object, an object with
\* a member, and a string that spells the closing marker
ArgumentTexts ==
    {Ones(n) : n \in 1..MaxDigits}
    \cup {<<"{", "}">>, <<"{", ArgumentsKey, "1", "}">>,
          <<Quote>> \o CloseMarker \o <<Quote>>}

NameMember == <<NameKey, Quote, "f", Quote>>

\* bodies that are JSON objects with a name and an arguments value, in
\* either order of the members
CallBody(a) == <<"{">> \o NameMember \o <<",", ArgumentsKey>> \o a \o <<"}">>

ReversedBody(a) == <<"{", ArgumentsKey>> \o a \o <<",">> \o NameMember \o <<"}">>

CallBodies ==
    {CallBody(a) : a \in ArgumentTexts} \cup {ReversedBody(<<"1">>)}

\* bodies that are no JSON object: a JSON number, an object that is never
\* closed, the empty body
MalformedBodies ==
    {<<"1">>, <<"{">> \o NameMember \o <<",", ArgumentsKey, "1">>, <<>>}

\* bodies that are no tool call: the malformed ones, and objects where a
\* member is missing or the name is no string
OtherBodies ==
    MalformedBodies
    \cup {<<"{">> \o NameMember \o <<"}">>,
          <<"{", ArgumentsKey, "1", "}">>,
          <<"{", NameKey, "1", ",", ArgumentsKey, "1", "}">>}

Tag(body, ws) == OpenMarker \o ws \o body \o ws \o CloseMarker

OneTags == {Tag(b, ws) : b \in CallBodies \cup OtherBodies,
                         ws \in {<<>>, <<" ">>}}

\* two tags in a row, the second one a tool call
TwoTags ==
    {Tag(b, <<>>) \o Tag(CallBody(<<"1", "1">>), <<>>) :
        b \in {<<"1">>, CallBody(<<"1">>)}}

\* no tag: a tag that is never closed, a closing marker alone, nothing
NoTags == {OpenMarker \o CallBody(<<"1">>), CloseMarker, <<>>}

OddTags == TwoTags \cup NoTags

Texts == {pre \o t \o post : pre \in Pads, post \in Pads,
                             t \in OneTags \cup OddTags}

\* the backend yields the text whole or cut in two at any offset
Splittings(t) ==
    {<<t>>} \cup {<<SubSeq(t, 1, k), SubSeq(t, k + 1, Len(t))>> : k \in 0..Len(t)}

TextIdle ==
    /\ mode = "non_stream"
    /\ text = <<>>
    /\ deltas = <<>>
    /\ buffer = <<>>
    /\ tool_call_detected = FALSE
    /\ chunks = <<>>
    /\ stream = "open"
    /\ response = <<>>

TextInit ==
    /\ mode \in {"stream", "non_stream"}
    /\ text \in Texts
    /\ deltas \in (IF mode = "stream" THEN Splittings(text) ELSE {<<>>})
    /\ buffer = <<>>
    /\ tool_call_detected = FALSE
    /\ chunks = <<>>
    /\ stream = "open"
    /\ response = <<>>

\* generate: the loop takes the next delta of the backend
Feed ==
    /\ mode = "stream" /\ stream = "open" /\ deltas # <<>>
    /\ \E now \in Seconds :
          LET n == FeedDelta([buffer |-> buffer,
                              detected |-> tool_call_detected],
                             Head(deltas), now)
          IN /\ buffer' = n.buffer
             /\ tool_call_detected' = n.detected
             /\ chunks' = chunks \o n.out
    /\ deltas' = Tail(deltas)
    /\ UNCHANGED <<mode, text, stream, response>>
    /\ UNCHANGED <<poolVars, inits, reqVars, svcVars, authVars, lockVars>>

\* generate: the backend's stream is exhausted
End ==
    /\ mode = "stream" /\ stream = "open" /\ deltas = <<>>
    /\ chunks' = chunks \o EndOfStream([buffer |-> buffer,
                                        detected |-> tool_call_detected])
    /\ stream' = "done"
    /\ UNCHANGED <<mode, text, deltas, buffer, tool_call_detected, response>>
    /\ UNCHANGED <<poolVars, inits, reqVars, svcVars, authVars, lockVars>>

\* generate: the backend raises instead of yielding.  The except clause calls
\* self._create_error_chunk, which the class does not define: the
\* AttributeError leaves generate and nothing is yielded.
BackendRaises ==
    /\ mode = "stream" /\ stream = "open"
    /\ stream' = "escaped"
    /\ UNCHANGED <<mode, text, deltas, buffer, tool_call_detected, chunks,
                   response>>
    /\ UNCHANGED <<poolVars, inits, reqVars, svcVars, authVars, lockVars>>

\* NonStreamResponseGenerator.generate for each outcome of the backend call;
\* on "ok" the backend returns the complete text, for a request with or
\* without tool definitions and with each finish reason
ProcessResponse ==
    /\ mode = "non_stream" /\ response = <<>>
    /\ \E backend \in BackendOutcomes, has_usage \in BOOLEAN, tools \in BOOLEAN,
          backend_finish \in BackendFinishReasons,
          backend_calls \in BackendToolCalls, now \in Seconds :
          response' = <<[backend |-> backend, has_usage |-> has_usage,
                         tools |-> tools, backend_finish |-> backend_finish,
                         backend_calls |-> backend_calls, now |-> now,
                         result |-> non_stream_generate(backend, has_usage,
                                        text, tools, backend_finish,
                                        backend_calls, now)]>>
    /\ UNCHANGED <<mode, text, deltas, buffer, tool_call_detected, chunks,
                   stream>>
    /\ UNCHANGED <<poolVars, inits, reqVars, svcVars, authVars, lockVars>>

NextText == Feed \/ End \/ BackendRaises \/ ProcessResponse

\* ------------------------------------------------------------ the API key
\* Python's None: the api_key that is not configured, the header not sent
None == "None"

ApiKeys == {"k1", "k2"}

\* the values of settings.security.api_key (Optional[str]) and of the
\* X-API-Key header as FastAPI hands it over (Header(None))
KeyValues == {None, ""} \cup ApiKeys

\* the requests whose key is checked in one behaviour
MaxChecks == 2

\* Python's truth value of an Optional[str]
Truthy(v) == v # None /\ v # ""

Returns(v) == [raised |-> FALSE, value |-> v, status |-> 0, detail |-> ""]
HTTPException(status_code, detail) ==
    [raised |-> TRUE, value |-> FALSE, status |-> status_code,
     detail |-> detail]

\* the check with the header tested before the server's own key
verify_api_key_HeaderFirst(sec, x_api_key) ==
    IF ~sec.enabled THEN Returns(TRUE)
    ELSE IF ~Truthy(x_api_key)
    THEN HTTPException(401, "API key is missing")
    ELSE IF ~Truthy(sec.api_key)
    THEN HTTPException(401, "API key is not configured on server")
    ELSE IF x_api_key # sec.api_key
    THEN HTTPException(401, "Invalid API key")
    ELSE Returns(TRUE)

\* the check without the comparison of the header with the server's key
verify_api_key_AnyKey(sec, x_api_key) ==
    IF ~sec.enabled THEN Returns(TRUE)
    ELSE IF ~Truthy(sec.api_key)
    THEN HTTPException(401, "API key is not configured on server")
    ELSE IF ~Truthy(x_api_key)
    THEN HTTPException(401, "API key is missing")
    ELSE Returns(TRUE)

verify_api_key(sec, x_api_key) ==
    IF ~sec.enabled THEN Returns(TRUE)
    ELSE IF ~Truthy(sec.api_key)
    THEN HTTPException(401, "API key is not configured on server")
    ELSE IF ~Truthy(x_api_key)
    THEN HTTPException(401, "API key is missing")
    ELSE IF x_api_key # sec.api_key
    THEN HTTPException(401, "Invalid API key")
    ELSE Returns(TRUE)

\* Depends(verify_api_key): an exception of the dependency is the answer,
\* otherwise its value is the handler's argument
require_api_key_handler(api_key_verified) ==
    IF api_key_verified.raised THEN api_key_verified
    ELSE IF ~api_key_verified.value
    THEN HTTPException(401, "Invalid API Key")
    ELSE Returns(TRUE)

\* SecurityConfig's defaults; settings is read once, when security.py is
\* imported
AuthIdle ==
    /\ security = [enabled |-> TRUE, api_key |-> None]
    /\ answers = <<>>

AuthInit ==
    /\ security \in [enabled : BOOLEAN, api_key : KeyValues]
    /\ answers = <<>>

\* one request to an endpoint that depends on require_api_key_handler, with
\* header x_api_key
Authenticate(x_api_key) ==
    /\ Len(answers) < MaxChecks
    /\ answers' = Append(answers,
                     [x_api_key |-> x_api_key,
                      outcome |-> require_api_key_handler(
                                      verify_api_key(security, x_api_key))])
    /\ UNCHANGED security
    /\ UNCHANGED <<poolVars, inits, reqVars, svcVars, textVars, lockVars>>

NextAuth == \E x_api_key \in KeyValues : Authenticate(x_api_key)

\* ------------------------------------------------------------- the locks
\* ModelPool's methods run on one event loop.  acquire and release have no
\* await inside their async with block: once the lock is free they run to
\* their end.  initialize and cleanup await asyncio.gather inside the block
\* and hold the lock meanwhile.  ModelContext.generate holds the context's
\* own lock while the backend call runs in the executor; ModelContext.cleanup
\* takes the same lock.
LockIdle ==
    /\ pool_lock = "free"
    /\ lpc = [r \in Requests |-> "idle"]

\* the context locks the gather of ModelPool.cleanup is waiting for: those
\* of contexts of _contexts on which a generation is running
BusyContexts == {ref[r] : r \in {q \in Requests : lpc[q] = "generate"}}
                    \cap Range(contexts)

\* a request calls acquire and waits for the pool's lock
CallAcquire(r) ==
    /\ lpc[r] = "idle"
    /\ lpc' = [lpc EXCEPT ![r] = "acquire"]
    /\ UNCHANGED <<pool_lock, poolVars, inits, reqVars, svcVars, textVars,
                   authVars>>

\* the lock is free: acquire runs, returns a context or raises
DoAcquire(r) ==
    /\ lpc[r] = "acquire"
    /\ pool_lock = "free"
    /\ IF AcquireResult = "ok"
       THEN /\ acquire
            /\ ref' = Canon([ref EXCEPT ![r] = available[Len(available)]],
                            Reachable')
            /\ lpc' = [lpc EXCEPT ![r] = "holding"]
       ELSE /\ UNCHANGED <<poolVars, ref>>
            /\ lpc' = [lpc EXCEPT ![r] = "done"]
    /\ UNCHANGED <<pool_lock, inits, released, last, svcVars, textVars,
                   authVars>>

\* the holder calls ModelContext.generate: RuntimeError when the context has
\* no model (torn down by a cleanup, which a reference that the pool no
\* longer knows may have been), otherwise the context's lock is taken and
\* the backend call starts
GenerateStart(r) ==
    /\ lpc[r] = "holding"
    /\ \E torn_down \in {t \in BOOLEAN :
                            /\ t => ref[r] = Gone \/ pool_lock = "cleanup"
                            /\ (pool_lock = "cleanup"
                                /\ ref[r] \in Range(contexts)) => t} :
          lpc' = [lpc EXCEPT ![r] = IF torn_down THEN "release"
                                    ELSE "generate"]
    /\ UNCHANGED <<pool_lock, poolVars, inits, reqVars, svcVars, textVars,
                   authVars>>

\* a backend call that ends only when the pool's lock is free
GenerateFinish_NeedsPoolLock(r) ==
    /\ lpc[r] = "generate"
    /\ pool_lock = "free"
    /\ lpc' = [lpc EXCEPT ![r] = "release"]
    /\ UNCHANGED <<pool_lock, poolVars, inits, reqVars, svcVars, textVars,
                   authVars>>

\* the backend call returns or raises: the context's lock is released and
\* the request calls release
GenerateFinish(r) ==
    /\ lpc[r] = "generate"
    /\ lpc' = [lpc EXCEPT ![r] = "release"]
    /\ UNCHANGED <<pool_lock, poolVars, inits, reqVars, svcVars, textVars,
                   authVars>>

\* the lock is free: release runs.  A context that is still in _in_use has
\* its model: only ModelPool.cleanup tears contexts down, and it empties
\* _in_use under the same lock.
DoRelease(r) ==
    /\ lpc[r] = "release"
    /\ pool_lock = "free"
    /\ release(ref[r], TRUE)
    /\ ref' = Canon(ref, Reachable')
    /\ lpc' = [lpc EXCEPT ![r] = "done"]
    /\ UNCHANGED <<pool_lock, inits, released, last, svcVars, textVars,
                   authVars>>

\* cleanup takes the pool's lock and awaits the gather of the contexts'
\* cleanup
CleanupEnter ==
    /\ pool_lock = "free"
    /\ pool_lock' = "cleanup"
    /\ UNCHANGED <<lpc, poolVars, inits, reqVars, svcVars, textVars, authVars>>

\* every context's cleanup got its lock: the gather returns, the pool's
\* state is cleared and the lock released
CleanupLeave ==
    /\ pool_lock = "cleanup"
    /\ BusyContexts = {}
    /\ cleanup
    /\ ref' = Canon(ref, Reachable')
    /\ pool_lock' = "free"
    /\ UNCHANGED <<lpc, inits, released, last, svcVars, textVars, authVars>>

\* initialize takes the pool's lock and awaits the gather of the new
\* contexts' initialize, whose locks nobody else knows
InitializeEnter ==
    /\ pool_lock = "free"
    /\ inits < MaxInits
    /\ pool_lock' = "initialize"
    /\ UNCHANGED <<lpc, poolVars, inits, reqVars, svcVars, textVars, authVars>>

InitializeLeave ==
    /\ pool_lock = "initialize"
    /\ inits' = inits + 1
    /\ \E fresh \in {<<>>, FreshContexts(inits + 1)} :
          \E ok \in InitOutcomes(fresh) : initialize(fresh, ok)
    /\ ref' = Canon(ref, Reachable')
    /\ pool_lock' = "free"
    /\ UNCHANGED <<lpc, released, last, svcVars, textVars, authVars>>

NextLocks ==
    \/ \E r \in Requests : CallAcquire(r)
    \/ \E r \in Requests : DoAcquire(r)
    \/ \E r \in Requests : GenerateStart(r)
    \/ \E r \in Requests : GenerateFinish(r)
    \/ \E r \in Requests : DoRelease(r)
    \/ CleanupEnter
    \/ CleanupLeave
    \/ InitializeEnter
    \/ InitializeLeave

Init == PoolInit /\ ReqInit /\ ServiceInit /\ TextIdle /\ AuthIdle /\ LockIdle

Next ==
    \/ Initialize
    \/ Cleanup
    \/ \E r \in Requests : Acquire(r)
    \/ \E r \in Requests : Release(r)

Spec == Init /\ [][Next]_vars

\* the service driven by its callers
SpecService == Init /\ [][NextService]_vars

\* The finally block is straight-line code: once entered, reset_cache and
\* _release_processing run to their end.
\* one completion through the response generators
InitText == PoolInit /\ ReqInit /\ ServiceInit /\ TextInit /\ AuthIdle
               /\ LockIdle

SpecText == InitText /\ [][NextText]_vars

\* the API key check, for every setting of settings.security
InitAuth == PoolInit /\ ReqInit /\ ServiceInit /\ TextIdle /\ AuthInit
               /\ LockIdle

SpecAuth == InitAuth /\ [][NextAuth]_vars

\* the pool with its locks
SpecLocks == Init /\ [][NextLocks]_vars

\* The event loop runs every task that can run.  A backend call ends, a
\* gather whose awaitables are done returns, and asyncio.Lock wakes a waiter
\* whenever it is released, so a lock that is free time and again is taken
\* by one of the calls that wait for it.
SpecLocksFair ==
    /\ SpecLocks
    /\ WF_vars(\E r \in Requests : GenerateFinish(r))
    /\ SF_vars(\E r \in Requests : DoAcquire(r) \/ DoRelease(r))
    /\ WF_vars(CleanupLeave \/ InitializeLeave)

SpecServiceFair ==
    /\ SpecService
    /\ \A r \in Requests : WF_vars(ResetCache(r))
    /\ \A r \in Requests : WF_vars(ReleaseProcessing(r))

\* ------------------------------------------------------- pool properties
\* the requests that hold a context the pool counts as in use
Holders == {r \in Requests : Holds(r) /\ ref[r] \in in_use}

\* the pool is initialized and its two partitions add up to the ceiling that
\* acquire compares against
Intact ==
    /\ initialized /\ ~initialization_failed
    /\ Len(available) + Cardinality(in_use) = max_active_requests
    /\ active_requests = Cardinality(in_use)

\* C1: in every reachable state the available list and the in-use set are
\* disjoint and active_requests equals the number of contexts in the in-use
\* set.
C1_Partition ==
    /\ Range(available) \cap in_use = {}
    /\ active_requests = Cardinality(in_use)

\* a second initialize ran while a context was out, and a request has just
\* released a context the pool did not count as in use
C1_Witness ==
    /\ inits >= 2 /\ initialized
    /\ Cardinality(in_use) >= 1 /\ Len(available) >= 1
    /\ last = "ignored"

\* C2 as stated: after a successful first initialize, with no cleanup and no
\* further initialize, |available| + |in-use| equals the ceiling acquire
\* compares active_requests against.  Violated: release drops a context that
\* is not ready and leaves _max_active_requests as it was.
C2_Original ==
    (inits = 1 /\ initialized /\ ~initialization_failed)
        => Len(available) + Cardinality(in_use) = max_active_requests

\* C3: in an intact pool below its ceiling, acquire succeeds, returns a
\* context no request holds and leaves the pool intact, so N acquires on a
\* pool of capacity N return N distinct contexts; at the ceiling, acquire
\* returns PoolExhausted in the same step and changes nothing.
C3_Acquire ==
    [][\A r \in Requests : (Acquire(r) /\ Intact) =>
          IF active_requests < max_active_requests
          THEN /\ last' = "ok"
               /\ ref'[r] \in ContextIds
               /\ ref'[r] \notin in_use /\ ref'[r] \in in_use'
               /\ \A q \in Holders : ref'[r] # ref[q]
               /\ Intact'
          ELSE /\ last' = "PoolExhausted"
               /\ UNCHANGED <<poolVars, ref, released>>]_vars

\* every context of an intact pool is held by its own request and the acquire
\* that came next returned PoolExhausted
C3_Witness ==
    /\ Intact /\ last = "PoolExhausted"
    /\ active_requests = max_active_requests
    /\ Cardinality(Holders) = max_active_requests
    /\ \A r, q \in Holders : r # q => ref[r] # ref[q]

\* C4 as stated: no two requests hold the same context.  Violated: a request
\* that releases its context a second time, after the context was handed to
\* another request, puts it back into _available while the other holds it.
C4_Original ==
    \A r, q \in Requests :
        (r # q /\ Holds(r) /\ Holds(q) /\ ref[r] \in ContextIds)
            => ref[r] # ref[q]

\* C7: releasing a held, ready context puts it at the end of _available,
\* where the next successful acquire takes it from, and in an intact pool
\* that acquire succeeds; releasing a context the pool does not count as in
\* use, as a second release with no acquire in between does, changes no field
\* of the pool; the counter is never negative and _available never lists a
\* context twice.
C7_Release ==
    [][\A r \in Requests : Release(r) =>
          /\ (ref[r] \in in_use /\ last' = "released") =>
                 /\ available' = Append(available, ref[r])
                 /\ ref[r] \notin in_use'
                 /\ Intact => AcquireResult' = "ok"
          /\ ref[r] \notin in_use =>
                 /\ last' = "ignored"
                 /\ UNCHANGED poolVars
          /\ active_requests' >= 0
          /\ \A c \in ContextIds : Count(available', c) <= 1]_vars

\* a request has just released, for the second time, a context that no
\* request acquired in between: the context is listed once
C7_Witness ==
    \E r \in Requests :
        /\ released[r] = 1 /\ last = "ignored"
        /\ ref[r] \in Range(available)
        /\ Count(available, ref[r]) = 1
        /\ active_requests >= 0

\* C8 as stated: 0 <= active_requests <= the current ceiling.  Violated:
\* initialize run again while contexts are out lowers _max_active_requests
\* below the number of contexts in use.
C8_Original ==
    0 <= active_requests /\ active_requests <= max_active_requests

\* ---------------------------------------------------- service properties
\* C5 as stated: a backend generation runs only while the request that
\* started it holds the model.  Violated: generate_response_non_stream
\* releases the lock before the coroutine that calls the backend is awaited.
C5_Original ==
    \A r \in Requests : spc[r] = "generating" => processing_lock = r

\* C6: a request releases the lock at most once and never without having
\* taken it, a request whose attempt on the lock failed never releases, and
\* every request that took the lock eventually releases it, stream or
\* non-stream, whatever the backend and reset_cache do.
C6_ReleaseOnce ==
    /\ [](\A r \in Requests :
             /\ Events(r, "release") <= Events(r, "acquire")
             /\ Events(r, "acquire") <= 1
             /\ spc[r] = "rejected" =>
                    Events(r, "acquire") = 0 /\ Events(r, "release") = 0
             /\ (Ended(spc[r]) /\ spc[r] # "rejected") =>
                    Events(r, "release") = 1)
    /\ \A r \in Requests :
          (Events(r, "acquire") = 1) ~> (Events(r, "release") = 1)

\* a non-stream request whose backend call raised and a stream request have
\* both ended, each with one release
C6_Witness ==
    \E r, q \in Requests :
        /\ kind[r] = "non_stream" /\ spc[r] = "done"
        /\ Events(r, "backend_raised") = 1 /\ Events(r, "release") = 1
        /\ kind[q] = "stream" /\ spc[q] = "raised"
        /\ Events(q, "acquire") = 1 /\ Events(q, "release") = 1

\* C9 as stated: between two consecutive generations on one model there is
\* exactly one reset when their session ids differ and none when they are the
\* same.  Violated: the finally block resets the cache on every call.
C9_Original ==
    (gap # <<>> /\ gap[1] # NoSession) =>
        /\ gap[1] # gap[2] => gap[3] = 1
        /\ gap[1] = gap[2] => gap[3] = 0

\* C10 as stated: a request whose backend call raised resets the model after
\* the failure and releases it after the reset.  Violated: reset and release
\* both precede the backend call, nothing follows the failure.
C10_Original ==
    \A r \in Requests :
        (spc[r] = "done" /\ Events(r, "backend_raised") = 1) =>
            \E i, j, k \in DOMAIN trace[r] :
                /\ i < j /\ j < k
                /\ trace[r][i] = "backend_raised"
                /\ trace[r][j] = "reset"
                /\ trace[r][k] = "release"

\* ----------------------------------------------------------------------
\* Part 3: the response generators
\* ----------------------------------------------------------------------

\* what a client reads off a chunk sequence
RECURSIVE VisibleText(_)
VisibleText(cs) ==
    IF cs = <<>> THEN <<>>
    ELSE (IF Head(cs).kind = "text" THEN Head(cs).content ELSE <<>>)
         \o VisibleText(Tail(cs))

RECURSIVE CallNames(_)
CallNames(cs) ==
    IF cs = <<>> THEN <<>>
    ELSE (IF Head(cs).call # <<>> THEN <<Head(cs).call[1].name>> ELSE <<>>)
         \o CallNames(Tail(cs))

RECURSIVE ArgumentsText(_)
ArgumentsText(cs) ==
    IF cs = <<>> THEN <<>>
    ELSE Head(cs).arguments \o ArgumentsText(Tail(cs))

\* the text is plain text around one tag whose body is a JSON object with a
\* name and an arguments value
HasOneCallTag(t) ==
    \E pre \in Pads, post \in Pads, b \in CallBodies, ws \in {<<>>, <<" ">>} :
        t = pre \o Tag(b, ws) \o post

\* the chunks of the same text fed as one delta
FedWhole == RunStream([buffer |-> <<>>, detected |-> FALSE], <<text>>, 0)

\* C11 as stated: a text with one well-formed tag, fed in two deltas cut at
\* any offset, gives the same tool call (name, arguments string) and the
\* same visible text as the text fed whole.  Violated: a cut inside the
\* opening marker leaves no delta that contains the marker, both deltas are
\* yielded as text and no call is extracted.
C11_Original ==
    (mode = "stream" /\ stream = "done" /\ HasOneCallTag(text)) =>
        /\ CallNames(chunks) = CallNames(FedWhole)
        /\ ArgumentsText(chunks) = ArgumentsText(FedWhole)
        /\ VisibleText(chunks) = VisibleText(FedWhole)

\* the symbols plain text is made of; every other symbol is tag syntax
PlainSymbols == {"x", " "}

\* C12 as stated: whatever the cut of a tag across deltas, no text chunk
\* holds any part of the tag.  Violated: with the cut inside the opening
\* marker both halves of the tag are yielded as text chunks.
C12_Original ==
    (mode = "stream" /\ HasOneCallTag(text)) =>
        \A i \in DOMAIN chunks :
            chunks[i].kind = "text" =>
                \A k \in DOMAIN chunks[i].content :
                    chunks[i].content[k] \in PlainSymbols

\* an argument chunk that is not the last one of its call
IsArgumentChunk(c) ==
    c.kind = "tool_call" /\ c.call = <<>> /\ c.finish_reason = "none"

IsTerminalChunk(c) ==
    c.kind = "tool_call" /\ c.call = <<>> /\ c.finish_reason = "tool_calls"

\* C13 as stated: every streamed call is one initiation chunk (id, name,
\* empty arguments, no finish reason), then one or more argument chunks
\* without finish reason, then one terminal chunk with finish reason
\* tool_calls, and nothing in between.  Violated: an arguments string of one
\* character has mid = 0 and gets no argument chunk at all.
C13_Original ==
    \A i \in DOMAIN chunks :
        chunks[i].call # <<>> =>
            /\ chunks[i].arguments = <<>>
            /\ chunks[i].finish_reason = "none"
            /\ \E n \in 1..Len(chunks) :
                  /\ i + n + 1 <= Len(chunks)
                  /\ \A k \in (i + 1)..(i + n) : IsArgumentChunk(chunks[k])
                  /\ IsTerminalChunk(chunks[i + n + 1])

\* C14: whenever a tool call is streamed, the argument slices of its
\* initiation, argument and terminal chunks, concatenated in order, are
\* exactly the JSON-encoded arguments string of the parsed call.
C14_Concatenation ==
    [][(Len(chunks') > Len(chunks) /\ chunks'[Len(chunks) + 1].call # <<>>) =>
          LET out == SubSeq(chunks', Len(chunks) + 1, Len(chunks'))
              group == FirstMatch(buffer \o Head(deltas), 1).group
              calls == parse_tool_calls_from_buffer(buffer \o Head(deltas), 0)
          IN /\ calls # <<>>
             /\ ArgumentsText(out) = calls[1].arguments
             /\ (ParseOutcome(group) = "call" =>
                    ArgumentsText(out) =
                        json_dumps(json_loads(group).val.arguments[1]))]_vars

\* a call has been streamed in three chunks, with a slice of the arguments
\* in the argument chunk and the rest in the terminal chunk
C14_Witness ==
    \E i \in DOMAIN chunks :
        /\ i + 2 <= Len(chunks)
        /\ chunks[i].call # <<>>
        /\ IsArgumentChunk(chunks[i + 1]) /\ chunks[i + 1].arguments # <<>>
        /\ IsTerminalChunk(chunks[i + 2]) /\ chunks[i + 2].arguments # <<>>
        /\ Len(chunks[i + 1].arguments \o chunks[i + 2].arguments) >= 3

\* C15 as stated: when the backend's stream ends while the buffer still
\* holds text that was not consumed as a tool call, that text is yielded as
\* one final text chunk before the end-of-stream marker.  Violated: the
\* buffer is only filled together with tool_call_detected = True, so the
\* flush under "buffer and not tool_call_detected" never runs.
C15_Original ==
    (mode = "stream" /\ stream = "done" /\ buffer # <<>>) =>
        /\ Len(chunks) >= 2
        /\ chunks[Len(chunks) - 1] = TextChunk(buffer)
        /\ chunks[Len(chunks)] = DoneChunk

\* the stream request is over: generate returned or an exception left it
StreamOver == mode = "stream" /\ stream \in {"done", "escaped"}

\* C16 as stated: the chunk sequence of every stream request ends with the
\* end-of-stream marker, which occurs exactly once.  Violated: when the
\* backend raises, control goes to the except clause, past the yield of the
\* marker.
C16_Original ==
    StreamOver =>
        /\ chunks # <<>>
        /\ chunks[Len(chunks)] = DoneChunk
        /\ Cardinality({i \in DOMAIN chunks : chunks[i] = DoneChunk}) = 1

\* C17 as stated: when the backend raises in mid-stream the assembler
\* yields exactly one error chunk and nothing after it, and no exception
\* leaves the assembler.  Violated: the except clause calls
\* _create_error_chunk, which the class does not have; the AttributeError
\* leaves generate and no error chunk is yielded.
C17_Original ==
    mode = "stream" =>
        /\ stream # "escaped"
        /\ \A i \in DOMAIN chunks :
              chunks[i].kind = "error" =>
                  /\ i = Len(chunks)
                  /\ chunks[i].finish_reason \notin {"stop", "tool_calls"}

\* C18 as stated: for a text with one tag whose body is a JSON object with
\* the name f and an arguments value, extract_tool_calls returns exactly one
\* call named f whose arguments string decodes to that value, and the text
\* without the tag, trimmed.  Violated: when the arguments value is a string
\* that spells the closing marker, the pattern ends the match inside the
\* body, the cut body is no JSON and no call is returned.
C18_Original ==
    (mode = "non_stream" /\ response # <<>> /\ response[1].backend = "ok"
     /\ response[1].tools) =>
        \A pre \in Pads, post \in Pads, ws \in {<<>>, <<" ">>},
           a \in ArgumentTexts :
            \A b \in {CallBody(a), ReversedBody(a)} :
                text = pre \o Tag(b, ws) \o post =>
                    LET x == extract_tool_calls(text, response[1].now) IN
                    /\ ~x.raised
                    /\ Len(x.tool_calls) = 1
                    /\ x.tool_calls[1].name = JString(<<"f">>)
                    /\ json_loads(x.tool_calls[1].arguments) = json_loads(a)
                    /\ x.cleaned_text = strip(pre \o post)
                    /\ response[1].result.tool_calls = x.tool_calls

\* c begins with pre and ends with post
Surrounds(c, pre, post) ==
    /\ Len(c) >= Len(pre) + Len(post)
    /\ SubSeq(c, 1, Len(pre)) = pre
    /\ SubSeq(c, Len(c) - Len(post) + 1, Len(c)) = post

\* C19 as stated: for a text whose tag encloses a body that is no tool-call
\* JSON object, the non-stream and the stream path give no tool call, emit
\* the plain text around the tag unchanged, and let no exception out of the
\* extractor or the assembler.  Violated: the stream path clears the buffer
\* with the plain text that shared a delta with the tag; the extractor lets
\* the AttributeError of a body that is JSON but no object escape.
C19_Original ==
    \A pre \in Pads, post \in Pads, ws \in {<<>>, <<" ">>},
       b \in MalformedBodies :
        text = pre \o Tag(b, ws) \o post =>
            /\ (mode = "non_stream" /\ response # <<>>
                /\ response[1].backend = "ok"
                /\ response[1].backend_calls = <<>>) =>
                  /\ ~(response[1].tools /\ extract_tool_calls(text, response[1].now).raised)
                  /\ ~response[1].result.raised
                  /\ response[1].result.tool_calls = <<>>
                  /\ Surrounds(response[1].result.content, pre, post)
            /\ (mode = "stream" /\ stream = "done") =>
                  /\ CallNames(chunks) = <<>>
                  /\ Surrounds(VisibleText(chunks), pre, post)

\* the bodies that end at the first closing marker after the opening one
PlainCallBodies ==
    {b \in CallBodies : ~Contains(b, CloseMarker)}

\* C20 as stated: for a request with or without tool definitions, when the
\* raw text has at least one valid tag the result has finish reason
\* tool_calls and the trimmed text without the tags as content; otherwise
\* the content is the raw text and the finish reason is the backend's, or
\* stop when the backend reported none.  Violated: without tool definitions
\* the text is never searched for tags.
C20_Original ==
    (mode = "non_stream" /\ response # <<>> /\ response[1].backend = "ok") =>
        \A pre \in Pads, post \in Pads :
            /\ \A t \in {Tag(b, ws) : b \in PlainCallBodies,
                                      ws \in {<<>>, <<" ">>}} \cup TwoTags :
                  text = pre \o t \o post =>
                      /\ response[1].result.finish_reason = "tool_calls"
                      /\ response[1].result.content = strip(pre \o post)
            /\ \A t \in {Tag(b, ws) : b \in MalformedBodies,
                                      ws \in {<<>>, <<" ">>}} \cup NoTags :
                  text = pre \o t \o post =>
                      /\ response[1].result.content = text
                      /\ response[1].backend_finish \in {"stop", "length"} =>
                            response[1].result.finish_reason
                                = response[1].backend_finish
                      /\ response[1].backend_finish \in {"null", "absent"} =>
                            response[1].result.finish_reason
                                \in {"stop", response[1].backend_finish}

\* C21 as stated: generate never raises; whatever the backend call gives
\* (a response with or without usage counters, a response without choices,
\* an exception) and whatever fails in the assembly, the result is a
\* complete response, and after a failure it has error content, finish
\* reason stop and usage counters of zero.  Violated: _create_error_response
\* raises TypeError, so every failure leaves generate as an exception.
C21_Original ==
    (mode = "non_stream" /\ response # <<>>) =>
        /\ ~response[1].result.raised
        /\ (response[1].backend = "ok" /\ ~response[1].has_usage) =>
              response[1].result.usage = ZeroUsage
        /\ (\/ response[1].backend # "ok"
            \/ response[1].tools /\ extract_tool_calls(text, response[1].now).raised) =>
              /\ response[1].result.error
              /\ response[1].result.finish_reason = "stop"
              /\ response[1].result.usage = ZeroUsage

\* C22 as stated: an initialize in which k >= 1 contexts initialize leaves
\* the pool ready, with exactly those k contexts available and a ceiling of
\* k; an initialize in which none does leaves the pool not ready and every
\* acquire failing.  Violated: initialize never clears
\* _initialization_failed, so an initialize that succeeds after one that
\* failed leaves the pool not ready.
C22_Original ==
    [][inits' = inits + 1 =>
          IF available' # <<>>
          THEN /\ is_ready'
               /\ max_active_requests' = Len(available')
               /\ Range(available') \subseteq Range(contexts')
          ELSE /\ ~is_ready'
               /\ AcquireResult' # "ok"]_vars

Min(a, b) == IF a <= b THEN a ELSE b

\* how many requests can hold a context at once: those that hold one, and
\* as many more as acquire would serve before it raises PoolExhaustedError
EffectiveCapacity ==
    Cardinality(in_use)
    + Min(Max(0, max_active_requests - active_requests), Len(available))

\* C23 as stated: a release of a held context that is not ready decrements
\* active_requests, keeps the context out of the available list and out of
\* reach of every later acquire, and lowers by one the number of requests
\* that can hold a context at once.  Violated: after an initialize that ran
\* while a context was held, the ceiling and not the available list limits
\* acquire, and dropping the old context frees a slot of the ceiling.
C23_Original ==
    [][last' = "dropped" =>
          /\ active_requests' = active_requests - 1
          /\ Cardinality(in_use \ in_use') = 1
          /\ \A c \in in_use \ in_use' : c \notin Range(available') \cup in_use'
          /\ EffectiveCapacity' = EffectiveCapacity - 1]_vars

\* the pool is structurally present: initialize succeeded and did not fail
Loaded == initialized /\ ~initialization_failed

\* C24: the pool reports ready exactly when it is initialized,
\* initialization has not failed and the available list is not empty; in a
\* state that is loaded and not ready, acquire raises PoolExhaustedError
\* and not the not-ready ServiceUnavailableError.
C24_Ready ==
    /\ is_ready <=> (initialized /\ ~initialization_failed /\ available # <<>>)
    /\ (Loaded /\ ~is_ready) => AcquireResult = "PoolExhausted"
    /\ ~Loaded => (~is_ready /\ AcquireResult = "ServiceUnavailable")

\* the pool is loaded, every context that initialized is in use, and an
\* acquire has just failed with PoolExhaustedError
C24_Witness ==
    /\ Loaded /\ ~is_ready
    /\ in_use # {} /\ in_use \subseteq Range(contexts)
    /\ Cardinality(in_use) = max_active_requests /\ available = <<>>
    /\ last = "PoolExhausted"

\* C25: cleanup, whether or not the teardown of a context failed, leaves
\* the context list, the available list and the in-use set empty,
\* active_requests 0 and the pool neither initialized nor ready; from then
\* on, until the pool is initialized again, acquire raises the not-ready
\* ServiceUnavailableError and a release of a context acquired before the
\* cleanup changes nothing.
C25_Cleanup ==
    [][/\ last' \in {"cleanup", "cleanup_with_failures"} =>
             /\ contexts' = <<>> /\ available' = <<>> /\ in_use' = {}
             /\ active_requests' = 0
             /\ ~initialized' /\ ~is_ready'
             /\ AcquireResult' = "ServiceUnavailable"
       /\ (~initialized /\ inits' = inits) =>
             /\ last' \in {"ok", "PoolExhausted", "ServiceUnavailable"} =>
                   (last' = "ServiceUnavailable" /\ UNCHANGED poolVars)
             /\ last' \in {"ignored", "released", "dropped"} =>
                   (last' = "ignored" /\ UNCHANGED poolVars)]_vars

\* the pool has just been cleaned up with a failing teardown while a
\* request held a context, which it has not released yet
C25_Witness ==
    /\ last = "cleanup_with_failures"
    /\ \E r \in Requests : ref[r] = Gone /\ released[r] = 0
    /\ contexts = <<>> /\ ~initialized

\* the detail of the HTTPException chat_completion raises for
\* ServiceUnavailableError, and the message that names the concurrency
GenericDetail == "Service temporarily unavailable. Please try again later."
BusyDetail ==
    "Service is busy. Maximum concurrent requests: N, Current active requests: N"

\* the response chat_completion would give if generate returned the error
\* response its except clause means to build
HttpResponse_ErrorContent(r) ==
    IF kind[r] = "stream"
    THEN [status |-> 200, detail |-> "text/event-stream"]
    ELSE IF kind[r] = "non_stream" /\ spc[r] = "rejected"
    THEN [status |-> 503, detail |-> GenericDetail]
    ELSE IF kind[r] = "non_stream" /\ spc[r] = "done"
    THEN [status |-> 200, detail |-> "error content"]
    ELSE [status |-> 0, detail |-> ""]

\* What the client of chat_completion gets, once it is decided.  A stream
\* request gets the StreamingResponse, whose status line is sent before the
\* generator is run.  A non-stream request whose lock attempt failed gets
\* the 503 of the ServiceUnavailableError branch; one that reached generate
\* gets the 500 of the Exception branch, as generate ends with the
\* TypeError of _create_error_response.
HttpResponse(r) ==
    IF kind[r] = "stream"
    THEN [status |-> 200, detail |-> "text/event-stream"]
    ELSE IF kind[r] = "non_stream" /\ spc[r] = "rejected"
    THEN [status |-> 503, detail |-> GenericDetail]
    ELSE IF kind[r] = "non_stream" /\ spc[r] = "done"
    THEN [status |-> 500, detail |-> "Error generating response"]
    ELSE [status |-> 0, detail |-> ""]

\* C26 as stated: a request refused because the concurrency ceiling is
\* reached gets HTTP 503 with a message that names the current number of
\* active requests and the maximum, stream or not.  Violated: the 503 of
\* chat_completion has a fixed detail without numbers, and a stream request
\* is refused only when its generator is run, after the 200 was sent.
C26_Original ==
    \A r \in Requests :
        spc[r] = "rejected" =>
            /\ HttpResponse(r).status = 503
            /\ HttpResponse(r).detail = BusyDetail

C28_Original ==
    [][\A r \in Requests :
          (~model /\ spc[r] = "new" /\ spc'[r] # "new") =>
              /\ spc'[r] = "rejected"
              /\ HttpResponse(r)'.status = 503]_vars

\* ----------------------------------------------------------------------
\* Part 4: the API key
\* ----------------------------------------------------------------------

Served(a) == ~a.outcome.raised
Refused(a, detail) ==
    a.outcome.raised /\ a.outcome.status = 401 /\ a.outcome.detail = detail

C30_PlainDelta ==
    [][(/\ mode = "stream" /\ stream = "open"
        /\ deltas # <<>> /\ deltas' = Tail(deltas)
        /\ ~tool_call_detected
        /\ Head(deltas) # <<>>
        /\ ~Contains(Head(deltas), OpenMarker)) =>
            /\ chunks' = Append(chunks, TextChunk(Head(deltas)))
            /\ ~tool_call_detected'
            /\ buffer' = buffer]_vars

\* two non-empty deltas without the opening marker have been taken and the
\* two text chunks carry them in their order
C30_Witness ==
    /\ mode = "stream" /\ stream = "open" /\ deltas = <<>>
    /\ ~Contains(text, OpenMarker)
    /\ Len(chunks) = 2
    /\ chunks[1].kind = "text" /\ chunks[2].kind = "text"
    /\ chunks[1].content # <<>> /\ chunks[2].content # <<>>
    /\ chunks[1].content # chunks[2].content
    /\ chunks[1].content \o chunks[2].content = text

\* ----------------------------------------------------------------------
\* Part 5: further properties of the generators, the pool and the service
\* ----------------------------------------------------------------------

\* the step of generate that takes the next delta
TakesDelta == mode = "stream" /\ stream = "open" /\ deltas # <<>>
                 /\ deltas' = Tail(deltas)

\* C31: a step that buffers its delta (buffering is on, or the delta holds
\* the opening marker) and finds the closing marker in the buffer ends in
\* plain mode with an empty buffer; when the buffer gave a call the step's
\* last chunk is the call's terminal chunk, and when it gave none the step
\* yields no chunk at all.
C31_ClosingMarker ==
    [][(/\ TakesDelta
        /\ Head(deltas) # <<>>
        /\ tool_call_detected \/ Contains(Head(deltas), OpenMarker)
        /\ Contains(buffer \o Head(deltas), CloseMarker)) =>
            /\ ~tool_call_detected'
            /\ buffer' = <<>>
            /\ IF parse_tool_calls_from_buffer(buffer \o Head(deltas), 0) # <<>>
               THEN /\ Len(chunks') > Len(chunks)
                    /\ IsTerminalChunk(chunks'[Len(chunks')])
               ELSE chunks' = chunks]_vars

\* a tag whose body gives no call was buffered and dropped: no part of the
\* tag was yielded as text, no tool-call chunk was yielded, and the stream
\* is back in plain mode with an empty buffer
C31_Witness ==
    /\ mode = "stream" /\ stream = "open" /\ deltas = <<>>
    /\ FirstMatch(text, 1).found
    /\ parse_tool_calls_from_buffer(text, 0) = <<>>
    /\ ~Contains(VisibleText(chunks), <<"tool_call">>)
    /\ \A i \in DOMAIN chunks : chunks[i].kind = "text"
    /\ buffer = <<>> /\ ~tool_call_detected

\* C32 as stated: every tool call of a response was produced by the
\* extractor from the tags of the text; a tool call the backend put into its
\* message is never copied.  Violated: _process_response reads the backend's
\* tool_calls and passes them on whenever the extractor does not replace
\* them.
C32_Original ==
    (mode = "non_stream" /\ response # <<>> /\ ~response[1].result.raised) =>
        Range(response[1].result.tool_calls) \subseteq
            Range(extract_tool_calls(text, response[1].now).tool_calls)

\* the ids of the tool calls a chunk sequence announces, in order
RECURSIVE CallIds(_)
CallIds(cs) ==
    IF cs = <<>> THEN <<>>
    ELSE (IF Head(cs).call # <<>> THEN <<Head(cs).call[1].id>> ELSE <<>>)
         \o CallIds(Tail(cs))

Distinct(s) == \A i, j \in DOMAIN s : i # j => s[i] # s[j]

\* C33 as stated: no two tool calls of one response and no two tool calls
\* announced in one stream share an id, also when they are extracted in the
\* same second.  Violated: the stream path names every call call_<second>,
\* so two calls parsed within one second have the same id.
C33_Original ==
    /\ (mode = "non_stream" /\ response # <<>>) =>
          Distinct([k \in DOMAIN response[1].result.tool_calls |->
                        response[1].result.tool_calls[k].id])
    /\ mode = "stream" => Distinct(CallIds(chunks))

\* the function names and arguments strings of a list of calls
Signatures(calls) ==
    [k \in DOMAIN calls |->
        [name |-> calls[k].name, arguments |-> calls[k].arguments]]

\* C34 as stated: on every text the parsing of the stream path and the
\* extractor of the non-stream path give the same calls in the same order
\* (names and arguments), also for bodies that are no JSON, objects without
\* name or arguments, and JSON values that are no objects.  Violated: for an
\* object without name or arguments the extractor fills in a default and
\* returns a call where the stream path returns none, and for a value that
\* is no object the extractor raises.
C34_Original ==
    (mode = "non_stream" /\ response # <<>> /\ response[1].backend = "ok"
     /\ response[1].tools /\ text # <<>>) =>
        LET x == extract_tool_calls(text, response[1].now)
            p == parse_tool_calls_from_buffer(text, response[1].now)
        IN /\ ~x.raised
           /\ Signatures(x.tool_calls) = Signatures(p)

\* C35 as stated: _model.reset() is never executed while a generation is in
\* flight on the same model, whatever the interleaving of the requests.
\* Violated: the non-stream call gives the lock back before its backend call
\* begins, so a stream request's generator, run in a worker thread, takes
\* the lock and resets the model while that backend call is running.
C35_Original ==
    [][\A r, q \in Requests :
          spc[r] = "generating" =>
              Events(q, "reset")' = Events(q, "reset")]_vars

\* C36: a cleanup or an initialize that holds the pool's lock, with
\* generations in flight and other requests waiting in acquire or release,
\* comes to its end, and every acquire and release that waits for the lock
\* completes: time and again the lock is free and no call waits for it.  (A
\* call that waits keeps waiting until it gets the lock, so a call that
\* never completed would keep this from ever holding again.)
C36_NoDeadlock ==
    []<>(/\ pool_lock = "free"
         /\ \A r \in Requests : lpc[r] \notin {"acquire", "release"})

\* cleanup holds the pool's lock and waits for the lock of a context on
\* which a generation is running, while another request waits in acquire or
\* release
C36_Witness ==
    /\ pool_lock = "cleanup"
    /\ BusyContexts # {}
    /\ \E q \in Requests : lpc[q] \in {"acquire", "release"}

\* C37 as stated: when a stream has ended normally the contents of its text
\* chunks, concatenated, are the deltas, concatenated, without the complete
\* tags; plain text that shares a delta with the opening marker or follows
\* the closing marker in the buffer is not lost.  Violated: the buffer is
\* cleared as a whole once it holds the closing marker, with the plain text
\* in it.
C37_Original ==
    (mode = "stream" /\ stream = "done") =>
        VisibleText(chunks) = RemoveAll(text, 1)

\* C38 as stated: in the chunks of one stream at most one chunk has a finish
\* reason, and after the chunk with finish reason tool_calls nothing but the
\* end-of-stream marker follows.  Violated: after the terminal chunk of a
\* call the loop goes on with the next delta, yields it as text or streams
\* the next call with a finish reason of its own.
C38_Original ==
    mode = "stream" =>
        /\ Cardinality({i \in DOMAIN chunks :
                            chunks[i].finish_reason # "none"}) <= 1
        /\ \A i, j \in DOMAIN chunks :
              (chunks[i].finish_reason = "tool_calls" /\ i < j) =>
                  chunks[j].kind = "done"

\* C39: a call of acquire that is refused, because the pool is not ready,
\* the ceiling is reached or no context is available, leaves the available
\* list, the in-use set, the counter of active requests and the two
\* readiness flags as they were.
C39_FailedAcquire ==
    [][last' \in {"ServiceUnavailable", "PoolExhausted"} =>
          UNCHANGED <<available, in_use, active_requests, initialized,
                      initialization_failed>>]_vars

\* acquire was refused for want of an available context, below the ceiling
C39_Witness ==
    /\ last = "PoolExhausted"
    /\ initialized /\ ~initialization_failed
    /\ active_requests < max_active_requests
    /\ available = <<>>

\* ------------------------------------------------- the endpoint behind the key
\* FastAPI resolves the dependencies of chat_completion before it calls the
\* function: the r-th request to arrive is the one whose key check wrote
\* answers[r], and the body runs only when no dependency raised
Admitted(r) == r <= Len(answers) /\ ~answers[r].outcome.raised

\* the body of chat_completion: the session id is a fresh uuid, which no
\* other request has (the request's own number stands for it), and
\* request.stream picks the service call
ChatCompletion(r, is_stream) ==
    /\ Admitted(r)
    /\ IF is_stream THEN StreamCall(r, r) ELSE NonStreamCall(r, r)

NextApi ==
    \/ \E x_api_key \in KeyValues : Authenticate(x_api_key)
    \/ \E r \in Requests, is_stream \in BOOLEAN : ChatCompletion(r, is_stream)
    \/ ServiceInitialize
    \/ ServiceCleanup
    \/ \E r \in Requests : StreamNext(r)
    \/ \E r \in Requests : ResetCache(r)
    \/ \E r \in Requests : ReleaseProcessing(r)
    \/ \E r \in Requests : GenerateBegin(r)
    \/ \E r \in Requests : GenerateEnd(r)

\* the endpoint with its dependencies, for every setting of settings.security
SpecApi == InitAuth /\ [][NextApi]_vars

\* the header is absent or empty, or it is not the server's key
BadCredential(x_api_key) ==
    ~Truthy(x_api_key) \/ x_api_key # security.api_key

\* nothing of the service carries a mark of request r
Untouched(r) ==
    /\ spc[r] = "new"
    /\ kind[r] = "none"
    /\ session[r] = NoSession
    /\ trace[r] = <<>>
    /\ processing_lock # r
    /\ loop # r
    /\ ref[r] = NoContext

\* C40: with authentication enabled, a chat-completion request whose key is
\* missing or invalid never takes a context or the processing lock, never
\* changes active_requests and never starts a generation or a reset: the
\* service and the pool carry no mark of it, and the step that refuses it
\* leaves them as they were
C40_Unauthorized ==
    security.enabled =>
        \A r \in Requests :
            (r <= Len(answers) /\ BadCredential(answers[r].x_api_key))
                => /\ answers[r].outcome.raised
                   /\ answers[r].outcome.status = 401
                   /\ Untouched(r)

\* both a request without a key and one with a wrong key were refused while
\* a request with the right key runs its generation
C40_Witness ==
    /\ security.enabled
    /\ Truthy(security.api_key)
    /\ \E r \in Requests :
          /\ r <= Len(answers)
          /\ Truthy(answers[r].x_api_key)
          /\ answers[r].x_api_key # security.api_key
    /\ \E r \in Requests : Admitted(r) /\ is_processing /\ processing_lock = r

====
